---------------------------- MODULE Spec2Model ----------------------------
(***************************************************************************)
(* QKART backend: the cart service (getCartByUser, addProductToCart,       *)
(* updateProductInCart, deleteProductFromCart, checkout) over the Cart,    *)
(* Product and User stores.                                                *)
(*                                                                         *)
(* Every service function is async: it runs from one `await` to the next   *)
(* without interruption, so a call is a small process whose position (pc)  *)
(* is the await it is suspended at, and one action is the resumption of    *)
(* that await together with the synchronous code that follows it.          *)
(* A store write (Cart.create, cart.save, user.save) either succeeds or    *)
(* rejects.                                                                *)
(***************************************************************************)
EXTENDS Integers, Sequences, FiniteSets, TLC

VARIABLES catalog, carts, users, calls

vars == <<catalog, carts, users, calls>>

(***************************************************************************)
(* Bounds of the model.                                                    *)
(***************************************************************************)
\* checkout is not started when it would leave the wallet above this: a
\* negative quantity makes a checkout credit the wallet, without limit.
MaxWallet == 500
\* Concurrent adds are not started for a cart that holds this many line
\* items: interleaved adds make a cart grow without limit.
MaxItems == 2

\* The users (by email), the product ids, the costs a product may have, the
\* quantities a caller may pass and the wallets a user may start with.
Emails == {"u1@qkart"}
ProductIds == {1, 2}
Costs == {100, 200}
Quantities == {-1, 3}
InitialWallets == {100, 500}
CallIds == {1, 2}

(***************************************************************************)
(* Configuration and schema defaults.                                      *)
(***************************************************************************)
\* config.default_address, the "no address set" sentinel
DefaultAddress == "ADDRESS_NOT_SET"
Addresses == {DefaultAddress, "12 Park Street"}
\* http-status codes used by the service
BAD_REQUEST == 400
NOT_FOUND == 404
INTERNAL_SERVER_ERROR == 500

(***************************************************************************)
(* Documents.                                                              *)
(***************************************************************************)
\* What a findOne / findById resolves to when nothing matches (null).
NoProduct == [exists |-> FALSE, id |-> 0, cost |-> 0]
NoCart == [exists |-> FALSE, cartItems |-> <<>>]

ProductDoc(id, cost) == [exists |-> TRUE, id |-> id, cost |-> cost]
CartDoc(items) == [exists |-> TRUE, cartItems |-> items]
LineItem(product, quantity) == [product |-> product, quantity |-> quantity]

\* ObjectId.toString(): the hex string of the id, one string per id.
IdToString(id) == ToString(id)

\* Product.findById(productId) / Product.findOne({_id: productId})
FindProduct(productId) == catalog[productId]

\* Cart.findOne({email: user.email})
FindCart(email) == carts[email]

(***************************************************************************)
(* A call of a service function.  pc is the await the call is suspended    *)
(* at; product, cart and user are the function's local documents; pre is   *)
(* the stored cart and wallet when the call started; afterCheckout tells   *)
(* that the call before this one was a checkout that returned its cart;    *)
(* staleCost tells that, when checkout summed its total, the catalog held  *)
(* another product document for a line item than the line item does.       *)
(***************************************************************************)
IdleCall ==
    [op |-> "none", email |-> "", productId |-> 0, quantity |-> 0,
     pc |-> "idle", product |-> NoProduct, cart |-> NoCart,
     user |-> [walletMoney |-> 0, address |-> DefaultAddress],
     outcome |-> "none", status |-> 0, message |-> "",
     pre |-> [cart |-> NoCart, walletMoney |-> 0],
     afterCheckout |-> FALSE, staleCost |-> FALSE]

\* The call has finished (returned or thrown) or was never made.
Finished(call) == call.pc \in {"idle", "done"}

\* The call returned normally and its value is not an error object.
Succeeded(call) ==
    call.pc = "done" /\ call.outcome = "returned" /\ call.status = 0

\* The call threw ApiError(status, message).
Failed(call, status, message) ==
    call.pc = "done" /\ call.outcome = "threw"
        /\ call.status = status /\ call.message = message

\* A new call of `op`, suspended at its first await.  `user` is the user
\* document the caller passes in.
NewCall(old, op, email, productId, quantity, pc) ==
    [op |-> op, email |-> email, productId |-> productId,
     quantity |-> quantity, pc |-> pc, product |-> NoProduct,
     cart |-> NoCart, user |-> users[email],
     outcome |-> "none", status |-> 0, message |-> "",
     pre |-> [cart |-> carts[email],
              walletMoney |-> users[email].walletMoney],
     afterCheckout |-> (old.op = "checkout" /\ Succeeded(old)),
     staleCost |-> FALSE]

\* return <value>: the call ends and its locals are gone.
Return(call) ==
    [call EXCEPT !.pc = "done", !.outcome = "returned",
                 !.product = NoProduct, !.cart = NoCart]

\* throw new ApiError(status, message)
Throw(call, status, message) ==
    [call EXCEPT !.pc = "done", !.outcome = "threw", !.status = status,
                 !.message = message,
                 !.product = NoProduct, !.cart = NoCart]

\* A rejected store write: the store's own error propagates, no ApiError.
StoreError == "store write rejected"

\* The messages of the ApiErrors.
MsgNoCartGet == "User does not have a cart"
MsgAlreadyInCart ==
    "Product already in cart. Use the cart sidebar to update or remove product from cart"
MsgNoProduct == "Product doesn't exist in database"
MsgNoCartUsePost ==
    "User does not have a cart. Use POST to create cart and add a product"
MsgNotInCart == "Product not in cart"
MsgNoCart == "User does not have a cart"
MsgCartNotFound == "Cart not found"
MsgNoProducts == "No products in cart"
MsgNoAddress == "No valid address"
MsgInsufficient == "Insufficient balance"

(***************************************************************************)
(* Pure parts of the service functions.                                    *)
(***************************************************************************)
\* Mutant of SameProduct: the ObjectId is compared with the string without
\* toString(), which is never equal.
SameProductNoToString(obj, productId) == FALSE

\* obj.product._id.toString() === productId.toString()
SameProduct(obj, productId) ==
    IdToString(obj.product.id) = IdToString(productId)

\* The forEach / find over cart.cartItems that looks for productId.
InCart(items, productId) ==
    \E i \in 1..Len(items) : SameProduct(items[i], productId)

\* cart.cartItems.push({product: product, quantity: quantity})
PushItem(items, product, quantity) ==
    Append(items, LineItem(product, quantity))

\* Mutant of SetQuantity: the forEach assigns without its if.
SetQuantityOfAll(items, productId, quantity) ==
    [i \in 1..Len(items) |-> [items[i] EXCEPT !.quantity = quantity]]

\* cart.cartItems.forEach(obj => { if (same product) obj.quantity = quantity })
SetQuantity(items, productId, quantity) ==
    [i \in 1..Len(items) |->
        IF SameProduct(items[i], productId)
        THEN [items[i] EXCEPT !.quantity = quantity]
        ELSE items[i]]

\* Mutant of LastPos: pos is not assigned in the forEach and stays 0.
LastPosUnassigned(items, productId) == 1

\* The forEach of deleteProductFromCart: pos ends as the index of the last
\* line item of productId (0-based in the code, 1-based here).
LastPos(items, productId) ==
    LET hits == {i \in 1..Len(items) : SameProduct(items[i], productId)}
    IN  CHOOSE i \in hits : \A j \in hits : j <= i

\* cart.cartItems.splice(pos, 1)
Splice(items, pos) ==
    [i \in 1..(Len(items) - 1) |->
        IF i < pos THEN items[i] ELSE items[i + 1]]

\* Mutant of Total: the cost is read from the Product Store at checkout,
\* not from the line item.
RECURSIVE TotalAtCatalogCost(_)
TotalAtCatalogCost(items) ==
    IF items = <<>> THEN 0
    ELSE TotalAtCatalogCost(SubSeq(items, 1, Len(items) - 1))
            + catalog[items[Len(items)].product.id].cost
                * items[Len(items)].quantity

\* The forEach of checkout: total = total + obj.product.cost * obj.quantity
RECURSIVE Total(_)
Total(items) ==
    IF items = <<>> THEN 0
    ELSE Total(SubSeq(items, 1, Len(items) - 1))
            + items[Len(items)].product.cost * items[Len(items)].quantity

\* Mutant of InsufficientBalance: the balance is not checked.
BalanceCheckSkipped(finalBalance) == FALSE

\* if (finalBalance < 0) throw
InsufficientBalance(finalBalance) == finalBalance < 0

\* Mutant of hasSetNonDefaultAddress: any address passes, the default too.
AnyAddressAccepted(user) == TRUE

\* userSchema.methods.hasSetNonDefaultAddress
hasSetNonDefaultAddress(user) == user.address # DefaultAddress

(***************************************************************************)
(* Store writes.                                                           *)
(***************************************************************************)
\* Cart.create({email, cartItems: []})
CreateCart(email) == [carts EXCEPT ![email] = CartDoc(<<>>)]

\* Mutant of SavePushedCart: the whole array of the document is written
\* over the stored one.
SavePushedCartOverwrites(email, cart) ==
    [carts EXCEPT ![email] = CartDoc(cart.cartItems)]

\* cart.save() after a push: the document's new line item (its last one)
\* is appended to the stored array.
SavePushedCart(email, cart) ==
    [carts EXCEPT ![email] =
        CartDoc(Append(@.cartItems, cart.cartItems[Len(cart.cartItems)]))]

\* Mutant of SaveCart: a cart left without line items is deleted.
SaveCartDeletesEmpty(email, cart) ==
    [carts EXCEPT ![email] =
        IF cart.cartItems = <<>> THEN NoCart ELSE CartDoc(cart.cartItems)]

\* Mutant of SaveCart: the document is not written.
SaveCartNotWritten(email, cart) == carts

\* cart.save() after the array or a line item of it was assigned: the
\* stored array becomes the document's.
SaveCart(email, cart) == [carts EXCEPT ![email] = CartDoc(cart.cartItems)]

\* Mutant of SaveUser: the document is not written.
SaveUserNotWritten(email, user) == users

\* user.save() after user.walletMoney was assigned
SaveUser(email, user) ==
    [users EXCEPT ![email].walletMoney = user.walletMoney]

(***************************************************************************)
(* Starting a call.  A slot takes a new call once its last one finished.   *)
(***************************************************************************)
CallGetCartByUser(c, email) ==
    /\ Finished(calls[c])
    /\ calls' = [calls EXCEPT ![c] =
                    NewCall(@, "getCartByUser", email, 0, 0, "get_findCart")]
    /\ UNCHANGED <<catalog, carts, users>>

CallAddProductToCart(c, email, productId, quantity) ==
    /\ Finished(calls[c])
    /\ calls' = [calls EXCEPT ![c] =
                    NewCall(@, "addProductToCart", email, productId, quantity,
                            "add_findProduct")]
    /\ UNCHANGED <<catalog, carts, users>>

CallUpdateProductInCart(c, email, productId, quantity) ==
    /\ Finished(calls[c])
    /\ calls' = [calls EXCEPT ![c] =
                    NewCall(@, "updateProductInCart", email, productId,
                            quantity, "upd_findCart")]
    /\ UNCHANGED <<catalog, carts, users>>

CallDeleteProductFromCart(c, email, productId) ==
    /\ Finished(calls[c])
    /\ calls' = [calls EXCEPT ![c] =
                    NewCall(@, "deleteProductFromCart", email, productId, 0,
                            "del_findCart")]
    /\ UNCHANGED <<catalog, carts, users>>

CallCheckout(c, email) ==
    /\ Finished(calls[c])
    /\ users[email].walletMoney - Total(carts[email].cartItems) <= MaxWallet
    /\ calls' = [calls EXCEPT ![c] =
                    NewCall(@, "checkout", email, 0, 0, "ck_findCart")]
    /\ UNCHANGED <<catalog, carts, users>>

(***************************************************************************)
(* getCartByUser                                                           *)
(***************************************************************************)
\* await Cart.findOne; the ApiError thrown for a missing cart is caught
\* and returned as the function's value.
GetFindCart(c) ==
    /\ calls[c].pc = "get_findCart"
    /\ LET call == calls[c]
           cart == FindCart(call.email)
       IN  calls' = [calls EXCEPT ![c] =
                IF ~cart.exists
                THEN [Return(call) EXCEPT
                        !.status = NOT_FOUND,
                        !.message = MsgNoCartGet]
                ELSE Return(call)]
    /\ UNCHANGED <<catalog, carts, users>>

(***************************************************************************)
(* addProductToCart                                                        *)
(***************************************************************************)
\* Mutant of AddChecks: the product is tested before the line items are
\* scanned.
AddChecksProductFirst(call, cart) ==
    IF ~call.product.exists
    THEN Throw(call, BAD_REQUEST, MsgNoProduct)
    ELSE IF InCart(cart.cartItems, call.productId)
    THEN Throw(call, BAD_REQUEST, MsgAlreadyInCart)
    ELSE [call EXCEPT
            !.cart = CartDoc(PushItem(cart.cartItems, call.product,
                                      call.quantity)),
            !.pc = "add_save"]

\* Mutant of AddChecks: the product is looked for in the catalog only, not
\* among the line items.
AddChecksWithoutCartCheck(call, cart) ==
    IF ~call.product.exists
    THEN Throw(call, BAD_REQUEST, MsgNoProduct)
    ELSE [call EXCEPT
            !.cart = CartDoc(PushItem(cart.cartItems, call.product,
                                      call.quantity)),
            !.pc = "add_save"]

\* The code from `let exist = false` to the push, run once the call holds
\* its cart document.
AddChecks(call, cart) ==
    IF InCart(cart.cartItems, call.productId)
    THEN Throw(call, BAD_REQUEST, MsgAlreadyInCart)
    ELSE IF ~call.product.exists
    THEN Throw(call, BAD_REQUEST, MsgNoProduct)
    ELSE [call EXCEPT
            !.cart = CartDoc(PushItem(cart.cartItems, call.product,
                                      call.quantity)),
            !.pc = "add_save"]

\* let product = await Product.findById(productId)
AddFindProduct(c) ==
    /\ calls[c].pc = "add_findProduct"
    /\ calls' = [calls EXCEPT ![c] =
                    [@ EXCEPT !.product = FindProduct(calls[c].productId),
                              !.pc = "add_findCart"]]
    /\ UNCHANGED <<catalog, carts, users>>

\* let cart = await Cart.findOne(...); without a cart, Cart.create is
\* awaited next, with one the checks and the push follow at once.
AddFindCart(c) ==
    /\ calls[c].pc = "add_findCart"
    /\ LET call == calls[c]
           cart == FindCart(call.email)
       IN  calls' = [calls EXCEPT ![c] =
                IF ~cart.exists
                THEN [call EXCEPT !.pc = "add_create"]
                ELSE AddChecks(call, cart)]
    /\ UNCHANGED <<catalog, carts, users>>

\* cart = await Cart.create(...) resolves: the empty cart is stored, then
\* the checks and the push run.  A cart stored for the email meanwhile
\* makes the insert fail, which is caught like any creation failure.
AddCreate(c) ==
    /\ calls[c].pc = "add_create"
    /\ LET call == calls[c]
       IN  IF carts[call.email].exists
           THEN /\ calls' = [calls EXCEPT ![c] =
                        Throw(call, INTERNAL_SERVER_ERROR, "")]
                /\ UNCHANGED carts
           ELSE /\ carts' = CreateCart(call.email)
                /\ calls' = [calls EXCEPT ![c] =
                        AddChecks(call, CartDoc(<<>>))]
    /\ UNCHANGED <<catalog, users>>

\* Cart.create rejects: catch (error) { throw new ApiError(500) }
AddCreateFails(c) ==
    /\ calls[c].pc = "add_create"
    /\ calls' = [calls EXCEPT ![c] = Throw(@, INTERNAL_SERVER_ERROR, "")]
    /\ UNCHANGED <<catalog, carts, users>>

\* await cart.save(); return cart
AddSave(c) ==
    /\ calls[c].pc = "add_save"
    /\ carts' = SavePushedCart(calls[c].email, calls[c].cart)
    /\ calls' = [calls EXCEPT ![c] = Return(@)]
    /\ UNCHANGED <<catalog, users>>

(***************************************************************************)
(* updateProductInCart                                                     *)
(***************************************************************************)
\* let cart = await Cart.findOne(...); if (!cart) throw
UpdFindCart(c) ==
    /\ calls[c].pc = "upd_findCart"
    /\ LET call == calls[c]
           cart == FindCart(call.email)
       IN  calls' = [calls EXCEPT ![c] =
                IF ~cart.exists
                THEN Throw(call, BAD_REQUEST, MsgNoCartUsePost)
                ELSE [call EXCEPT !.cart = cart, !.pc = "upd_findProduct"]]
    /\ UNCHANGED <<catalog, carts, users>>

\* let product = await Product.findOne(...); the two checks; the forEach
\* that assigns the quantity.
UpdFindProduct(c) ==
    /\ calls[c].pc = "upd_findProduct"
    /\ LET call == calls[c]
           product == FindProduct(call.productId)
       IN  calls' = [calls EXCEPT ![c] =
                IF ~product.exists
                THEN Throw(call, BAD_REQUEST, MsgNoProduct)
                ELSE IF ~InCart(call.cart.cartItems, call.productId)
                THEN Throw(call, BAD_REQUEST, MsgNotInCart)
                ELSE [call EXCEPT
                        !.product = product,
                        !.cart = CartDoc(SetQuantity(@.cartItems,
                                    call.productId, call.quantity)),
                        !.pc = "upd_save"]]
    /\ UNCHANGED <<catalog, carts, users>>

\* await cart.save(); return cart
UpdSave(c) ==
    /\ calls[c].pc = "upd_save"
    /\ carts' = SaveCart(calls[c].email, calls[c].cart)
    /\ calls' = [calls EXCEPT ![c] = Return(@)]
    /\ UNCHANGED <<catalog, users>>

(***************************************************************************)
(* deleteProductFromCart                                                   *)
(***************************************************************************)
\* Mutant of DelFindCart: a missing cart is reported as 404, as checkout
\* does.
DelFindCartNotFound(c) ==
    /\ calls[c].pc = "del_findCart"
    /\ LET call == calls[c]
           cart == FindCart(call.email)
       IN  calls' = [calls EXCEPT ![c] =
                IF ~cart.exists
                THEN Throw(call, NOT_FOUND, MsgNoCart)
                ELSE IF ~InCart(cart.cartItems, call.productId)
                THEN Throw(call, BAD_REQUEST, MsgNotInCart)
                ELSE [call EXCEPT
                        !.cart = CartDoc(Splice(cart.cartItems,
                                    LastPos(cart.cartItems, call.productId))),
                        !.pc = "del_save"]]
    /\ UNCHANGED <<catalog, carts, users>>

\* let cart = await Cart.findOne(...); the two checks; the splice.
DelFindCart(c) ==
    /\ calls[c].pc = "del_findCart"
    /\ LET call == calls[c]
           cart == FindCart(call.email)
       IN  calls' = [calls EXCEPT ![c] =
                IF ~cart.exists
                THEN Throw(call, BAD_REQUEST, MsgNoCart)
                ELSE IF ~InCart(cart.cartItems, call.productId)
                THEN Throw(call, BAD_REQUEST, MsgNotInCart)
                ELSE [call EXCEPT
                        !.cart = CartDoc(Splice(cart.cartItems,
                                    LastPos(cart.cartItems, call.productId))),
                        !.pc = "del_save"]]
    /\ UNCHANGED <<catalog, carts, users>>

\* await cart.save()
DelSave(c) ==
    /\ calls[c].pc = "del_save"
    /\ carts' = SaveCart(calls[c].email, calls[c].cart)
    /\ calls' = [calls EXCEPT ![c] = Return(@)]
    /\ UNCHANGED <<catalog, users>>

(***************************************************************************)
(* checkout                                                                *)
(***************************************************************************)
\* let cart = await Cart.findOne(...); no cart, then no line items.
CkFindCart(c) ==
    /\ calls[c].pc = "ck_findCart"
    /\ LET call == calls[c]
           cart == FindCart(call.email)
       IN  calls' = [calls EXCEPT ![c] =
                IF ~cart.exists
                THEN Throw(call, NOT_FOUND, MsgCartNotFound)
                ELSE IF Len(cart.cartItems) = 0
                THEN Throw(call, BAD_REQUEST, MsgNoProducts)
                ELSE [call EXCEPT !.cart = cart, !.pc = "ck_address"]]
    /\ UNCHANGED <<catalog, carts, users>>

\* await user.hasSetNonDefaultAddress(); the total; the balance check;
\* user.walletMoney = finalBalance.
CkAddress(c) ==
    /\ calls[c].pc = "ck_address"
    /\ LET call == calls[c]
           walletMoney == call.user.walletMoney
           total == Total(call.cart.cartItems)
           finalBalance == walletMoney - total
       IN  calls' = [calls EXCEPT ![c] =
                IF ~hasSetNonDefaultAddress(call.user)
                THEN Throw(call, BAD_REQUEST, MsgNoAddress)
                ELSE IF InsufficientBalance(finalBalance)
                THEN Throw(call, BAD_REQUEST, MsgInsufficient)
                ELSE [call EXCEPT
                        !.user.walletMoney = finalBalance,
                        !.pc = "ck_saveUser",
                        !.staleCost =
                            \E i \in 1..Len(call.cart.cartItems) :
                                catalog[call.cart.cartItems[i].product.id]
                                    # call.cart.cartItems[i].product]]
    /\ UNCHANGED <<catalog, carts, users>>

\* await user.save(); cart.cartItems = []
CkSaveUser(c) ==
    /\ calls[c].pc = "ck_saveUser"
    /\ users' = SaveUser(calls[c].email, calls[c].user)
    /\ calls' = [calls EXCEPT ![c] =
                    [@ EXCEPT !.cart = CartDoc(<<>>), !.pc = "ck_saveCart"]]
    /\ UNCHANGED <<catalog, carts>>

\* await cart.save(); return cart
CkSaveCart(c) ==
    /\ calls[c].pc = "ck_saveCart"
    /\ carts' = SaveCart(calls[c].email, calls[c].cart)
    /\ calls' = [calls EXCEPT ![c] = Return(@)]
    /\ UNCHANGED <<catalog, users>>

(***************************************************************************)
(* An awaited save() rejects: nothing is written and the rejection         *)
(* propagates out of the function (no call site catches it).               *)
(***************************************************************************)
SavePcs == {"add_save", "upd_save", "del_save", "ck_saveUser", "ck_saveCart"}

SaveFails(c) ==
    /\ calls[c].pc \in SavePcs
    /\ calls' = [calls EXCEPT ![c] = Throw(@, 0, StoreError)]
    /\ UNCHANGED <<catalog, carts, users>>

(***************************************************************************)
(* The catalog collaborator: products are created, repriced and removed    *)
(* outside the cart service.                                               *)
(***************************************************************************)
SetProduct(productId, cost) ==
    /\ catalog[productId] # ProductDoc(productId, cost)
    /\ catalog' = [catalog EXCEPT ![productId] = ProductDoc(productId, cost)]
    /\ UNCHANGED <<carts, users, calls>>

RemoveProduct(productId) ==
    /\ catalog[productId].exists
    /\ catalog' = [catalog EXCEPT ![productId] = NoProduct]
    /\ UNCHANGED <<carts, users, calls>>

(***************************************************************************)
(* The system: a catalog, no carts, registered users with the schema's     *)
(* or another starting wallet and the default or a real address.           *)
(***************************************************************************)
Init ==
    /\ catalog = [p \in ProductIds |-> ProductDoc(p, 100)]
    /\ carts = [e \in Emails |-> NoCart]
    /\ users \in [Emails -> [walletMoney : InitialWallets,
                             address : Addresses]]
    /\ calls = [c \in CallIds |-> IdleCall]

\* The steps of the call in slot c.
Step(c) ==
    \/ GetFindCart(c)
    \/ AddFindProduct(c)
    \/ AddFindCart(c)
    \/ AddCreate(c)
    \/ AddCreateFails(c)
    \/ AddSave(c)
    \/ UpdFindCart(c)
    \/ UpdFindProduct(c)
    \/ UpdSave(c)
    \/ DelFindCart(c)
    \/ DelSave(c)
    \/ CkFindCart(c)
    \/ CkAddress(c)
    \/ CkSaveUser(c)
    \/ CkSaveCart(c)
    \/ SaveFails(c)

\* A caller starts a call in slot c.
Start(c) ==
    \E email \in Emails :
        \/ CallGetCartByUser(c, email)
        \/ CallCheckout(c, email)
        \/ \E productId \in ProductIds :
            \/ CallDeleteProductFromCart(c, email, productId)
            \/ \E quantity \in Quantities :
                \/ CallAddProductToCart(c, email, productId, quantity)
                \/ CallUpdateProductInCart(c, email, productId, quantity)

Catalog ==
    \E productId \in ProductIds :
        \/ RemoveProduct(productId)
        \/ \E cost \in Costs : SetProduct(productId, cost)

\* Sequential use: calls do not overlap, each runs in slot 1 after the one
\* before it finished.
Next == Start(1) \/ Step(1) \/ Catalog

Spec == Init /\ [][Next]_vars

(***************************************************************************)
(* Properties of sequential use.  In a state where the call of slot 1 is   *)
(* done, carts and users are as that call left them and the call's pre is  *)
(* what it found.                                                          *)
(***************************************************************************)
\* The line items and the wallet are what the call found.
Untouched(call) ==
    /\ carts[call.email] = call.pre.cart
    /\ users[call.email].walletMoney = call.pre.walletMoney

\* The sum of cost * quantity over the line items the call found.
PreTotal(call) ==
    LET items == call.pre.cart.cartItems
        Sum[i \in 0..Len(items)] ==
            IF i = 0 THEN 0
            ELSE Sum[i - 1] + items[i].product.cost * items[i].quantity
    IN  Sum[Len(items)]

\* The checkout found a cart with line items, a real address and enough
\* money.
CanCheckout(call) ==
    /\ call.pre.cart.exists
    /\ Len(call.pre.cart.cartItems) >= 1
    /\ users[call.email].address # DefaultAddress
    /\ call.pre.walletMoney - PreTotal(call) >= 0

\* C1: a checkout that succeeds found a cart with at least one line item,
\* a non-default address and walletMoney - total >= 0, and leaves the
\* stored walletMoney at its previous value minus total and the cart with
\* an empty cartItems.
C1_CheckoutDebitsAndEmpties ==
    \A c \in CallIds :
        LET call == calls[c] IN
        /\ (call.op = "checkout" /\ Succeeded(call)) =>
            /\ CanCheckout(call)
            /\ users[call.email].walletMoney
                    = call.pre.walletMoney - PreTotal(call)
            /\ carts[call.email] = CartDoc(<<>>)
        /\ (call.op = "checkout" /\ call.pc = "done" /\ CanCheckout(call)) =>
            \/ Succeeded(call)
            \/ Failed(call, 0, StoreError)

\* C1 witness: walletMoney 500 and one item {cost: 100, quantity: 3} end
\* with walletMoney 200 and an empty cart.
C1_Witness ==
    LET call == calls[1] IN
    /\ call.op = "checkout" /\ Succeeded(call)
    /\ call.pre.walletMoney = 500
    /\ call.pre.cart.cartItems = <<LineItem(ProductDoc(1, 100), 3)>>
    /\ users[call.email].walletMoney = 200
    /\ carts[call.email].cartItems = <<>>

\* C2: a checkout that found a non-empty cart and a non-default address
\* but walletMoney - total < 0 fails with 400 "Insufficient balance" and
\* leaves walletMoney and the cart as they were.
C2_InsufficientBalanceChangesNothing ==
    \A c \in CallIds :
        LET call == calls[c] IN
        (/\ call.op = "checkout" /\ call.pc = "done"
         /\ call.pre.cart.exists
         /\ Len(call.pre.cart.cartItems) >= 1
         /\ users[call.email].address # DefaultAddress
         /\ call.pre.walletMoney - PreTotal(call) < 0) =>
            /\ Failed(call, BAD_REQUEST, MsgInsufficient)
            /\ Untouched(call)

\* C2 witness: walletMoney 100 and one item {cost: 100, quantity: 3}.
C2_Witness ==
    LET call == calls[1] IN
    /\ call.op = "checkout"
    /\ Failed(call, BAD_REQUEST, MsgInsufficient)
    /\ call.pre.walletMoney = 100
    /\ call.pre.cart.cartItems = <<LineItem(ProductDoc(1, 100), 3)>>
    /\ users[call.email].walletMoney = 100
    /\ carts[call.email].cartItems = <<LineItem(ProductDoc(1, 100), 3)>>

\* C3: under sequential calls every cart has at most one line item per
\* product id.
C3_OneLineItemPerProduct ==
    \A e \in Emails :
        \A i, j \in 1..Len(carts[e].cartItems) :
            carts[e].cartItems[i].product.id = carts[e].cartItems[j].product.id
                => i = j

\* C3 witness: a cart of two line items on which an add of a product it
\* holds has just been refused.
C3_Witness ==
    LET call == calls[1] IN
    /\ call.op = "addProductToCart"
    /\ Failed(call, BAD_REQUEST, MsgAlreadyInCart)
    /\ Len(carts[call.email].cartItems) = 2

\* C4: an add whose productId resolves to no product fails with 400 and
\* leaves the Cart Store as it was, also when the user had no cart (no
\* cart document is created).
C4_UnknownProductLeavesCartStore ==
    \A c \in CallIds :
        LET call == calls[c] IN
        (call.op = "addProductToCart"
            /\ Failed(call, BAD_REQUEST, MsgNoProduct)) =>
                carts[call.email] = call.pre.cart

\* C5: a checkout that has ended, by returning or by a rejected write,
\* has applied both of its mutations or neither: it never leaves the
\* wallet debited by the cart total while the cart keeps its line items.
C5_CheckoutAllOrNothing ==
    \A c \in CallIds :
        LET call == calls[c] IN
        (call.op = "checkout" /\ call.pc = "done") =>
            ~(/\ PreTotal(call) > 0
              /\ users[call.email].walletMoney
                    = call.pre.walletMoney - PreTotal(call)
              /\ carts[call.email].cartItems # <<>>
              /\ carts[call.email] = call.pre.cart)

\* The line items of `items` that are not of productId, in their order.
Others(items, productId) ==
    SelectSeq(items, LAMBDA obj : obj.product.id # productId)

C7_UpdateChangesOneQuantity ==
    \A c \in CallIds :
        LET call == calls[c]
            before == call.pre.cart.cartItems
            after == carts[call.email].cartItems
        IN  (call.op = "updateProductInCart" /\ Succeeded(call)) =>
                /\ Len(after) = Len(before)
                /\ \E i \in 1..Len(after) :
                        after[i].product.id = call.productId
                /\ \A i \in 1..Len(after) :
                    /\ after[i].product = before[i].product
                    /\ after[i].quantity =
                            IF before[i].product.id = call.productId
                            THEN call.quantity
                            ELSE before[i].quantity

\* C7 witness: of two line items the second got another quantity.
C7_Witness ==
    LET call == calls[1] IN
    /\ call.op = "updateProductInCart" /\ Succeeded(call)
    /\ Len(call.pre.cart.cartItems) = 2
    /\ call.pre.cart.cartItems[2].product.id = call.productId
    /\ call.pre.cart.cartItems[2].quantity # call.quantity
    /\ carts[call.email].cartItems[2].quantity = call.quantity

\* C8: an add of a product id that is a line item of the cart fails with
\* the client error 400 "Product already in cart", whatever the quantity,
\* and the cart keeps its one line item of that product with its quantity.
C8_AddOfCartProductRefused ==
    \A c \in CallIds :
        LET call == calls[c]
            held == {i \in 1..Len(call.pre.cart.cartItems) :
                        call.pre.cart.cartItems[i].product.id
                            = call.productId}
        IN  (call.op = "addProductToCart" /\ call.pc = "done"
                /\ held # {}) =>
                /\ Failed(call, BAD_REQUEST, MsgAlreadyInCart)
                /\ carts[call.email] = call.pre.cart
                /\ Cardinality(held) = 1

\* C8 witness: the refused add passed another quantity than the line
\* item has, for a product the catalog no longer holds.
C8_Witness ==
    LET call == calls[1] IN
    /\ call.op = "addProductToCart"
    /\ Failed(call, BAD_REQUEST, MsgAlreadyInCart)
    /\ Len(carts[call.email].cartItems) = 1
    /\ carts[call.email].cartItems[1].product.id = call.productId
    /\ carts[call.email].cartItems[1].quantity # call.quantity
    /\ ~catalog[call.productId].exists

\* C9: a checkout without a cart fails with 404, a checkout of a cart
\* without line items fails with 400 "No products in cart", and so a
\* checkout right after a successful checkout fails with that 400 and
\* changes neither the wallet nor the cart.
C9_CheckoutNotIdempotent ==
    \A c \in CallIds :
        LET call == calls[c] IN
        (call.op = "checkout" /\ call.pc = "done") =>
            /\ ~call.pre.cart.exists =>
                    Failed(call, NOT_FOUND, MsgCartNotFound)
            /\ (call.pre.cart.exists /\ call.pre.cart.cartItems = <<>>) =>
                    Failed(call, BAD_REQUEST, MsgNoProducts)
            /\ call.afterCheckout =>
                    /\ Failed(call, BAD_REQUEST, MsgNoProducts)
                    /\ Untouched(call)

\* C9 witness: the second of two checkouts in a row has failed.
C9_Witness ==
    LET call == calls[1] IN
    /\ call.op = "checkout" /\ call.pc = "done"
    /\ call.afterCheckout
    /\ Failed(call, BAD_REQUEST, MsgNoProducts)

\* C10: a checkout by a user whose address is the default sentinel and
\* whose cart has line items fails with 400 "No valid address", whatever
\* the wallet, and leaves wallet and cart as they were.
C10_DefaultAddressRefused ==
    \A c \in CallIds :
        LET call == calls[c] IN
        (/\ call.op = "checkout" /\ call.pc = "done"
         /\ users[call.email].address = DefaultAddress
         /\ call.pre.cart.exists
         /\ Len(call.pre.cart.cartItems) >= 1) =>
            /\ Failed(call, BAD_REQUEST, MsgNoAddress)
            /\ Untouched(call)

\* C10 witness: walletMoney 500 covers the cart, the address is the
\* default one.
C10_Witness ==
    LET call == calls[1] IN
    /\ call.op = "checkout"
    /\ Failed(call, BAD_REQUEST, MsgNoAddress)
    /\ call.pre.walletMoney = 500
    /\ call.pre.walletMoney - PreTotal(call) >= 0
    /\ Len(carts[call.email].cartItems) >= 1

\* C11: a getCartByUser for a user without a cart document fails with 404
\* "User does not have a cart": the error is thrown to the caller, it is
\* not the value the call returns.
C11_GetWithoutCartThrows ==
    \A c \in CallIds :
        LET call == calls[c] IN
        (call.op = "getCartByUser" /\ call.pc = "done"
            /\ ~call.pre.cart.exists) =>
                Failed(call, NOT_FOUND, MsgNoCartGet)

\* C12: a cart that exists is never taken back to nonexistent, a
\* checkout that succeeded leaves the cart existing with no line items,
\* and a cart comes to exist only by the Cart.create of addProductToCart.
C12_CartLifecycle ==
    /\ [](\A c \in CallIds :
            (calls[c].op = "checkout" /\ Succeeded(calls[c])) =>
                carts[calls[c].email] = [exists |-> TRUE, cartItems |-> <<>>])
    /\ [][\A e \in Emails :
            /\ carts[e].exists => carts'[e].exists
            /\ (~carts[e].exists /\ carts'[e].exists) =>
                    \E c \in CallIds :
                        /\ calls[c].op = "addProductToCart"
                        /\ calls[c].email = e
                        /\ calls[c].pc = "add_create"
                        /\ calls'[c].pc # "add_create"]_vars

\* C12 witness: a checkout has succeeded and the cart is there, empty,
\* after it held a line item.
C12_Witness ==
    LET call == calls[1] IN
    /\ call.op = "checkout" /\ Succeeded(call)
    /\ Len(call.pre.cart.cartItems) >= 1
    /\ carts[call.email].exists
    /\ carts[call.email].cartItems = <<>>

\* C13: from a non-negative starting wallet, walletMoney is non-negative
\* in every state the cart operations reach, whatever the costs and the
\* quantities the operations accepted.
C13_WalletNeverNegative ==
    \A e \in Emails : users[e].walletMoney >= 0

\* C13 witness: a checkout has spent the whole wallet, on a cart that
\* holds a negative quantity too.
C13_Witness ==
    LET call == calls[1] IN
    /\ call.op = "checkout" /\ Succeeded(call)
    /\ call.pre.walletMoney > 0
    /\ \E i \in 1..Len(call.pre.cart.cartItems) :
            call.pre.cart.cartItems[i].quantity < 0
    /\ users[call.email].walletMoney = 0

\* C14: walletMoney is written by checkout alone: a getCartByUser, add,
\* update or delete that has ended, whether it succeeded or failed, and a
\* checkout that has failed, leave the wallet as the call found it.
C14_WalletWrittenBySuccessfulCheckoutOnly ==
    \A c \in CallIds :
        LET call == calls[c] IN
        (call.pc = "done" /\ ~(call.op = "checkout" /\ Succeeded(call))) =>
            users[call.email].walletMoney = call.pre.walletMoney

\* C15: every line item of every cart has a quantity that is a positive
\* integer.
C15_QuantitiesPositive ==
    \A e \in Emails :
        \A i \in 1..Len(carts[e].cartItems) :
            carts[e].cartItems[i].quantity \in Nat \ {0}

\* C16: an update or delete for a user without a cart fails with 400 (not
\* 404), as does one for a productId that is not a line item of the cart,
\* and an update whose productId the catalog does not hold; each of these
\* failures leaves the Cart Store as it was, without a new cart.
C16_UpdateDeleteRefusals ==
    /\ [](\A c \in CallIds :
            LET call == calls[c]
                absent == \A i \in 1..Len(call.pre.cart.cartItems) :
                            call.pre.cart.cartItems[i].product.id
                                # call.productId
            IN  /\ (call.op = "updateProductInCart" /\ call.pc = "done") =>
                    /\ ~call.pre.cart.exists =>
                            Failed(call, BAD_REQUEST, MsgNoCartUsePost)
                    /\ (call.pre.cart.exists /\ absent) =>
                            \/ Failed(call, BAD_REQUEST, MsgNotInCart)
                            \/ Failed(call, BAD_REQUEST, MsgNoProduct)
                /\ (call.op = "deleteProductFromCart" /\ call.pc = "done") =>
                    /\ ~call.pre.cart.exists =>
                            Failed(call, BAD_REQUEST, MsgNoCart)
                    /\ (call.pre.cart.exists /\ absent) =>
                            Failed(call, BAD_REQUEST, MsgNotInCart)
                /\ (call.op \in {"updateProductInCart",
                                 "deleteProductFromCart"}
                        /\ call.pc = "done" /\ call.outcome = "threw") =>
                    carts[call.email] = call.pre.cart)
    /\ [][\A c \in CallIds :
            (/\ calls[c].pc = "upd_findProduct"
             /\ ~catalog[calls[c].productId].exists
             /\ calls'[c] # calls[c]) =>
                Failed(calls'[c], BAD_REQUEST, MsgNoProduct)]_vars

\* C16 witness: an update for a product of the catalog that is not in the
\* user's cart of one line item has been refused, the cart is as it was.
C16_Witness ==
    LET call == calls[1] IN
    /\ call.op = "updateProductInCart"
    /\ Failed(call, BAD_REQUEST, MsgNotInCart)
    /\ Len(call.pre.cart.cartItems) = 1
    /\ carts[call.email] = call.pre.cart

(***************************************************************************)
(* Concurrent adds: two callers run addProductToCart for the same user at  *)
(* once, and the awaits of the two calls interleave in any order.          *)
(***************************************************************************)
\* A newly registered user: the schema's default wallet and address.
InitConc ==
    /\ catalog = [p \in ProductIds |-> ProductDoc(p, 100)]
    /\ carts = [e \in Emails |-> NoCart]
    /\ users = [e \in Emails |->
                    [walletMoney |-> 500, address |-> DefaultAddress]]
    /\ calls = [c \in CallIds |-> IdleCall]

\* A caller starts an add in slot c, for a cart that is not full.
StartAdd(c) ==
    \E email \in Emails, productId \in ProductIds, quantity \in Quantities :
        /\ Len(carts[email].cartItems) < MaxItems
        /\ CallAddProductToCart(c, email, productId, quantity)

NextConc ==
    \E c \in CallIds :
        \/ StartAdd(c)
        \/ AddFindProduct(c)
        \/ AddFindCart(c)
        \/ AddCreate(c)
        \/ AddCreateFails(c)
        \/ AddSave(c)
        \/ SaveFails(c)

SpecConc == InitConc /\ [][NextConc]_vars

\* The number of line items of productId in the stored cart.
LineItemsOf(email, productId) ==
    Cardinality({i \in 1..Len(carts[email].cartItems) :
                    carts[email].cartItems[i].product.id = productId})

\* C17: when two adds of one product for one user have both succeeded,
\* each having read the cart before the other wrote it (adds alone never
\* remove a line item, so they cannot both succeed otherwise), the cart
\* holds two line items of that product: uniqueness is lost.
C17_ConcurrentAddsDoubleInsert ==
    (/\ calls[1].op = "addProductToCart" /\ Succeeded(calls[1])
     /\ calls[2].op = "addProductToCart" /\ Succeeded(calls[2])
     /\ calls[1].email = calls[2].email
     /\ calls[1].productId = calls[2].productId) =>
        LineItemsOf(calls[1].email, calls[1].productId) >= 2

\* C17 witness: both adds of product 1 have succeeded and the cart holds
\* exactly two line items, both of product 1.
C17_Witness ==
    /\ calls[1].op = "addProductToCart" /\ Succeeded(calls[1])
    /\ calls[2].op = "addProductToCart" /\ Succeeded(calls[2])
    /\ calls[1].email = calls[2].email
    /\ calls[1].productId = 1 /\ calls[2].productId = 1
    /\ Len(carts[calls[1].email].cartItems) = 2
    /\ LineItemsOf(calls[1].email, 1) = 2

\* The sum of the catalog's present cost * quantity over the line items
\* the call found.
CatalogTotal(call) ==
    LET items == call.pre.cart.cartItems
        Sum[i \in 0..Len(items)] ==
            IF i = 0 THEN 0
            ELSE Sum[i - 1]
                    + catalog[items[i].product.id].cost * items[i].quantity
    IN  Sum[Len(items)]

\* C18: the amount a successful checkout takes from the wallet is the
\* total at the costs recorded on the line items when they were added,
\* whatever the catalog holds for those products by then.
C18_DebitAtSnapshotCost ==
    \A c \in CallIds :
        LET call == calls[c] IN
        (call.op = "checkout" /\ Succeeded(call)) =>
            call.pre.walletMoney - users[call.email].walletMoney
                = PreTotal(call)

\* C18 witness: product 1 was added at cost 100 and cost 200 in the
\* catalog when the checkout summed its total; the checkout of 3 of it
\* took 300, not 600.
C18_Witness ==
    LET call == calls[1] IN
    /\ call.op = "checkout" /\ Succeeded(call)
    /\ call.staleCost
    /\ call.pre.cart.cartItems = <<LineItem(ProductDoc(1, 100), 3)>>
    /\ catalog[1] = ProductDoc(1, 200)
    /\ call.pre.walletMoney = 500
    /\ users[call.email].walletMoney = 200
    /\ CatalogTotal(call) = 600

\* C19: the checks run in a fixed order and the first that fails decides
\* the error.  An add of a product that is a line item of the cart and
\* that the catalog lacks reports "Product already in cart"; a checkout
\* reports no cart (404), then no line items, then the default address,
\* then the insufficient balance.
C19_CheckOrder ==
    /\ [](\A c \in CallIds :
            LET call == calls[c] IN
            (call.op = "checkout" /\ call.pc = "done") =>
                IF ~call.pre.cart.exists
                THEN Failed(call, NOT_FOUND, MsgCartNotFound)
                ELSE IF call.pre.cart.cartItems = <<>>
                THEN Failed(call, BAD_REQUEST, MsgNoProducts)
                ELSE IF users[call.email].address = DefaultAddress
                THEN Failed(call, BAD_REQUEST, MsgNoAddress)
                ELSE IF call.pre.walletMoney - PreTotal(call) < 0
                THEN Failed(call, BAD_REQUEST, MsgInsufficient)
                ELSE Succeeded(call) \/ Failed(call, 0, StoreError))
    /\ [][\A c \in CallIds :
            (/\ calls[c].pc = "add_findCart"
             /\ ~calls[c].product.exists
             /\ LineItemsOf(calls[c].email, calls[c].productId) >= 1
             /\ calls'[c] # calls[c]) =>
                Failed(calls'[c], BAD_REQUEST, MsgAlreadyInCart)]_vars

\* C19 witness: a checkout of an empty cart by a user with the default
\* address has failed as "No products in cart".
C19_Witness ==
    LET call == calls[1] IN
    /\ call.op = "checkout"
    /\ Failed(call, BAD_REQUEST, MsgNoProducts)
    /\ call.pre.cart.exists
    /\ call.pre.cart.cartItems = <<>>
    /\ users[call.email].address = DefaultAddress

\* C20: a successful checkout never raises walletMoney: the wallet after
\* it is at most the wallet before it.
C20_CheckoutNeverCredits ==
    \A c \in CallIds :
        LET call == calls[c] IN
        (call.op = "checkout" /\ Succeeded(call)) =>
            users[call.email].walletMoney <= call.pre.walletMoney

=============================================================================
